---- MODULE Spec2Model ----
(***************************************************************************)
(* Model of lib/SIL/SILGen/SILGen.cpp: SILModule::constructSIL, the        *)
(* SILGenModule emission policies (preEmitFunction / postEmitFunction,     *)
(* emitFunction, emitConstructor, emitClosure, emitDestructor), the        *)
(* SILGenFunction scope (constructor and fall-off-the-end destructor) and  *)
(* the SILGenType scope.                                                   *)
(*                                                                         *)
(* The pass is sequential; pc is the position of the single thread of      *)
(* control; callers holds the emissions suspended on its call stack while  *)
(* something called from their body runs, scopes the SILGenType objects    *)
(* whose members are being lowered.  Body lowering, member lowering, the   *)
(* builder, the cleanup manager, the verifier and the declaration visitor  *)
(* are not part of SILGen.cpp; they are modelled by what the design        *)
(* document says of them.                                                  *)
(***************************************************************************)
EXTENDS Integers, Sequences, FiniteSets

\* ---------------------------------------------------------------- bounds
\* Declarations and expressions visited plus statements lowered by one pass,
\* a call that suspends the body it is made from counted twice.
MaxSteps == 3

\* ------------------------------------------------------- declarations
\* A declaration node.  id is the node's identity (its address); the other
\* fields answer the AST queries SILGen.cpp makes of the node.
Decl(id, variant, hasBody, resultType, refSem, hasDtor) ==
  [id |-> id, variant |-> variant, hasBody |-> hasBody,
   resultType |-> resultType, refSem |-> refSem, hasDtor |-> hasDtor]

NoDecl == Decl(0, "none", FALSE, "EmptyTuple", FALSE, FALSE)

DeclSet ==
  { Decl(1, "func", TRUE, "EmptyTuple", FALSE, FALSE),
    Decl(2, "func", TRUE, "Int", FALSE, FALSE),
    Decl(3, "func", FALSE, "EmptyTuple", FALSE, FALSE),
    Decl(4, "ctor", TRUE, "EmptyTuple", TRUE, FALSE),
    Decl(5, "ctor", TRUE, "EmptyTuple", FALSE, FALSE),
    Decl(6, "ctor", FALSE, "EmptyTuple", TRUE, FALSE),
    Decl(7, "closure", TRUE, "EmptyTuple", FALSE, FALSE),
    Decl(8, "pattern", FALSE, "EmptyTuple", FALSE, FALSE),
    Decl(9, "type", FALSE, "EmptyTuple", TRUE, FALSE),
    Decl(10, "type", FALSE, "EmptyTuple", TRUE, TRUE),
    Decl(11, "type", FALSE, "EmptyTuple", FALSE, FALSE),
    Decl(12, "type", FALSE, "EmptyTuple", FALSE, TRUE) }

Kinds == {"Library", "Main", "Repl"}

\* SILConstant(loc) and SILConstant(loc, kind): the key of the function table.
\* "Default" is the constant built without a kind argument.
SILConstant(loc, kind) == <<loc, kind>>

\* ------------------------------------------------------------ IR objects
Instr(op, arg) == [op |-> op, arg |-> arg]

Terminators == {"return", "unreachable"}

\* A block is open when it does not end in a terminator.
IsOpen(block) ==
  \/ Len(block) = 0
  \/ block[Len(block)].op \notin Terminators

OpenBlocks(F) == {b \in 1..Len(F.blocks) : IsOpen(F.blocks[b])}

\* new (M) Function(M, type): a shell with no blocks.  verified records that
\* F->verify() has passed on it, epilogs how many times the destructor of a
\* SILGenFunction built on it has run.
Function == [blocks |-> <<>>, verified |-> FALSE, epilogs |-> 0]

\* M.functions with no entry.
EmptyTable == [k \in {} |-> 0]

VARIABLES
  kind,               \* tu->Kind
  pc,                 \* position of the pass
  ndecls,             \* declarations of tu->Decls dispatched so far
  nstmts,             \* statements lowered so far
  nnested,            \* calls from bodies and type scopes so far, weighted
  D,                  \* the declaration being visited
  heap,               \* the Function objects allocated in the module, by id
  toplevel,           \* M.toplevel: a function id, 0 when null
  functions,          \* M.functions: SILConstant -> function id
  TopLevelSGF,        \* SILGenModule::TopLevelSGF
  sgf,                \* the SILGenFunction temporary of the running policy
  constant,           \* the SILConstant of the running preEmit/postEmit pair
  phase,              \* which SILGenFunction of the policy is running
  scopes,             \* the SILGenType objects alive, outermost first
  fault,              \* why the pass aborted, "none" while it has not
  atDispatch,         \* history: M.functions when D was dispatched
  invoked,            \* history: the node the last call was made for
  callers             \* the emissions suspended in their body, outermost first

vars == <<kind, pc, ndecls, nstmts, nnested, D, heap, toplevel, functions, TopLevelSGF, sgf,
          constant, phase, scopes, fault, atDispatch, invoked, callers>>

\* ---------------------------------------------------------- SILGenFunction
NoSGF == [F |-> 0, ip |-> 0, Cleanups |-> <<>>, hasVoidReturn |-> FALSE,
          epilogBB |-> 0]

\* static bool isVoidableType(Type type)
isVoidableType(type) == type = "EmptyTuple"

\* SILGenFunction::SILGenFunction: a new BasicBlock is appended to F and the
\* builder is positioned at it; the function is referenced, h is the heap
\* after the block was created.
SILGenFunction(h, F, hasVoidReturn) ==
  [sgf |-> [F |-> F, ip |-> Len(h[F].blocks) + 1, Cleanups |-> <<>>,
            hasVoidReturn |-> hasVoidReturn, epilogBB |-> 0],
   heap |-> [h EXCEPT ![F].blocks = Append(@, <<>>)]]

hasValidInsertionPoint(c) == c.ip # 0

\* Builder: append instructions at the insertion point.
Emit(h, c, instrs) == [h EXCEPT ![c.F].blocks[c.ip] = @ \o instrs]

\* CleanupManager: the code of every cleanup on the stack, innermost first.
CleanupCode(stack) ==
  [i \in 1..Len(stack) |-> Instr("cleanup", stack[Len(stack) + 1 - i])]

\* Cleanups.emitReturnAndCleanups(loc, value): value is the position, in the
\* current block, of the instruction that produced the returned value (0 for
\* a value computed by the body).
emitReturnAndCleanups(h, c, value) ==
  [sgf |-> [c EXCEPT !.ip = 0],
   heap |-> Emit(h, c, CleanupCode(c.Cleanups) \o <<Instr("return", value)>>),
   fault |-> FALSE]

SILGenFunction_dtor_PlainReturn(h, c) ==
  IF ~hasValidInsertionPoint(c)
    THEN [sgf |-> c, heap |-> h, fault |-> FALSE]
    ELSE IF c.hasVoidReturn
      THEN IF c.epilogBB # 0
        THEN [sgf |-> c, heap |-> h, fault |-> TRUE]
        ELSE LET h1 == Emit(h, c, <<Instr("tuple", 0)>>)
             IN [sgf |-> [c EXCEPT !.ip = 0],
                 heap |-> Emit(h1, c, <<Instr("return",
                                              Len(h1[c.F].blocks[c.ip]))>>),
                 fault |-> FALSE]
      ELSE [sgf |-> [c EXCEPT !.ip = 0],
            heap |-> Emit(h, c, <<Instr("unreachable", 0)>>),
            fault |-> FALSE]

SILGenFunction_dtor_Inverted(h, c) ==
  IF ~hasValidInsertionPoint(c)
    THEN [sgf |-> c, heap |-> h, fault |-> FALSE]
    ELSE IF ~c.hasVoidReturn
      THEN IF c.epilogBB # 0
        THEN [sgf |-> c, heap |-> h, fault |-> TRUE]
        ELSE LET h1 == Emit(h, c, <<Instr("tuple", 0)>>)
             IN emitReturnAndCleanups(h1, c, Len(h1[c.F].blocks[c.ip]))
      ELSE [sgf |-> [c EXCEPT !.ip = 0],
            heap |-> Emit(h, c, <<Instr("unreachable", 0)>>),
            fault |-> FALSE]

SILGenFunction_dtor_NoValidCheck(h, c) ==
  LET at == IF hasValidInsertionPoint(c)
              THEN c
              ELSE [c EXCEPT !.ip = Len(h[c.F].blocks)]
  IN IF c.hasVoidReturn
       THEN IF c.epilogBB # 0
         THEN [sgf |-> c, heap |-> h, fault |-> TRUE]
         ELSE LET h1 == Emit(h, at, <<Instr("tuple", 0)>>)
              IN emitReturnAndCleanups(h1, at, Len(h1[c.F].blocks[at.ip]))
       ELSE [sgf |-> [c EXCEPT !.ip = 0],
             heap |-> Emit(h, at, <<Instr("unreachable", 0)>>),
             fault |-> FALSE]

SILGenFunction_dtor_NoUnreachable(h, c) ==
  IF ~hasValidInsertionPoint(c)
    THEN [sgf |-> c, heap |-> h, fault |-> FALSE]
    ELSE IF c.hasVoidReturn
      THEN IF c.epilogBB # 0
        THEN [sgf |-> c, heap |-> h, fault |-> TRUE]
        ELSE LET h1 == Emit(h, c, <<Instr("tuple", 0)>>)
             IN emitReturnAndCleanups(h1, c, Len(h1[c.F].blocks[c.ip]))
      ELSE [sgf |-> c, heap |-> h, fault |-> FALSE]

\* SILGenFunction::~SILGenFunction
SILGenFunction_dtor(h, c) ==
  IF ~hasValidInsertionPoint(c)
    THEN [sgf |-> c, heap |-> h, fault |-> FALSE]
    ELSE IF c.hasVoidReturn
      THEN IF c.epilogBB # 0
        THEN [sgf |-> c, heap |-> h, fault |-> TRUE]
        ELSE LET h1 == Emit(h, c, <<Instr("tuple", 0)>>)
             IN emitReturnAndCleanups(h1, c, Len(h1[c.F].blocks[c.ip]))
      ELSE [sgf |-> [c EXCEPT !.ip = 0],
            heap |-> Emit(h, c, <<Instr("unreachable", 0)>>),
            fault |-> FALSE]

\* ------------------------------------------------------------- the module
Init ==
  /\ kind \in Kinds
  /\ pc = "start"
  /\ ndecls = 0
  /\ nstmts = 0
  /\ nnested = 0
  /\ D = NoDecl
  /\ heap = <<>>
  /\ toplevel = 0
  /\ functions = EmptyTable
  /\ TopLevelSGF = NoSGF
  /\ sgf = NoSGF
  /\ constant = SILConstant(0, "Default")
  /\ phase = "none"
  /\ scopes = <<>>
  /\ fault = "none"
  /\ atDispatch = EmptyTable
  /\ invoked = NoDecl
  /\ callers = <<>>

\* ------------------------------------------------------------ SILGenModule
Abort(why) ==
  /\ pc' = "aborted"
  /\ fault' = why

\* SILGenModule::preEmitFunction: the assertion, then the shell.
preEmitFunction(M, h, c) ==
  [fault |-> c \in DOMAIN M, F |-> Len(h) + 1, heap |-> Append(h, Function)]

\* F->verify(): the verifier rejects a function with an open block; its
\* other checks are an oracle.
verify(F, oracle) == OpenBlocks(F) = {} /\ oracle

\* M.functions[constant] = F
Store(M, c, F) == [k \in DOMAIN M \cup {c} |-> IF k = c THEN F ELSE M[k]]

\* The constant is built, then preEmitFunction, then the SILGenFunction
\* temporary: the common head of every emission policy.
BeginEmit(c, hasVoidReturn, ph) ==
  LET pre == preEmitFunction(functions, heap, c)
      ctx == SILGenFunction(pre.heap, pre.F, hasVoidReturn)
  IN /\ constant' = c
     /\ IF pre.fault
          THEN /\ Abort("duplicate")
               /\ UNCHANGED <<heap, sgf, phase>>
          ELSE /\ heap' = ctx.heap
               /\ sgf' = ctx.sgf
               /\ phase' = ph
               /\ pc' = "body"
               /\ fault' = fault

\* for (Decl *D : tu->Decls) sgm.visit(D): the next declaration is taken.
Dispatch(d) ==
  /\ pc = "loop"
  /\ ndecls + nnested + nstmts < MaxSteps
  /\ ndecls' = ndecls + 1
  /\ D' = d
  /\ atDispatch' = functions
  /\ UNCHANGED <<kind, nstmts, nnested, toplevel, functions, TopLevelSGF, callers>>

Skip ==
  /\ pc' = "loop"
  /\ UNCHANGED <<heap, sgf, constant, phase, fault>>

\* return nullptr: the policy returns to its caller at once.
ReturnNull ==
  /\ pc' = pc
  /\ UNCHANGED <<heap, sgf, constant, phase, fault>>

\* The emission suspended while something called from its body runs: its
\* SILGenFunction, its constant and where its policy stands.
Frame(c, k, ph) == [sgf |-> c, constant |-> k, phase |-> ph]

\* A SILGenType object: its fields, and how many emissions were suspended on
\* the call stack when it was constructed (where it stands on that stack).
Scope(t, dd, n) == [theType |-> t, explicitDestructor |-> dd, depth |-> n]

Top(stack) == stack[Len(stack)]
Pop(stack) == SubSeq(stack, 1, Len(stack) - 1)

\* The constants of the emissions on the call stack.
InProgress == {constant} \cup {callers[i].constant : i \in 1..Len(callers)}

\* Body lowering meets a function expression, a closure expression or a local
\* declaration.
MetInBody == pc = "body"

\* The call made from the body being lowered; the SILGenFunction of the body
\* stays alive while the callee runs (enters).  A call that suspends the body
\* takes two of MaxSteps, the call and the return into the body.
CallFromBody(enters) ==
  /\ ndecls + nnested + nstmts + (IF enters THEN 2 ELSE 1) <= MaxSteps
  /\ callers' = IF enters
                  THEN Append(callers, Frame(sgf, constant, phase))
                  ELSE callers
  /\ nnested' = nnested + (IF enters THEN 2 ELSE 1)
  /\ UNCHANGED <<kind, ndecls, nstmts, D, toplevel, functions, TopLevelSGF,
                 atDispatch>>

\* Member lowering meets a member of the type whose SILGenType is the
\* innermost one.
MemberOfType ==
  /\ pc = "type"
  /\ ndecls + nnested + nstmts < MaxSteps

\* The call made for a member of the type.
CallFromType ==
  /\ nnested' = nnested + 1
  /\ UNCHANGED <<kind, ndecls, nstmts, D, toplevel, functions, TopLevelSGF,
                 atDispatch, callers>>

\* A call is made for node d by the loop over the declarations, from the body
\* being lowered or for a member of a type.
Visit(d, enters) ==
  /\ invoked' = d
  /\ \/ Dispatch(d)
     \/ MetInBody /\ CallFromBody(enters)
     \/ MemberOfType /\ CallFromType

\* Control returns to what encloses the callee, open the SILGenType objects
\* of open: to the members of the innermost of them when it was constructed
\* after the innermost suspended body was suspended, else to that body, whose
\* SILGenFunction is the current one again, else to the loop.
ReturnTo(open) ==
  IF open # <<>> /\ Top(open).depth = Len(callers)
    THEN /\ pc' = "type"
         /\ sgf' = NoSGF
         /\ UNCHANGED <<constant, phase, callers>>
    ELSE IF callers # <<>>
      THEN /\ sgf' = Top(callers).sgf
           /\ constant' = Top(callers).constant
           /\ phase' = Top(callers).phase
           /\ callers' = Pop(callers)
           /\ pc' = "body"
      ELSE /\ sgf' = NoSGF
           /\ pc' = "loop"
           /\ UNCHANGED <<constant, phase, callers>>

hasTopLevel_MainOnly(k) == k = "Main"

\* constructSIL: the switch on tu->Kind.
hasTopLevel(k) ==
  CASE k = "Library" -> FALSE
    [] k \in {"Main", "Repl"} -> TRUE

\* SILModule::constructSIL up to the loop: the module and its SILGenModule.
constructSIL ==
  /\ pc = "start"
  /\ LET h == IF hasTopLevel(kind) THEN <<Function>> ELSE <<>>
         top == IF hasTopLevel(kind) THEN 1 ELSE 0
     IN /\ toplevel' = top
        /\ IF top # 0
             THEN LET ctx == SILGenFunction(h, top, TRUE)
                  IN heap' = ctx.heap /\ TopLevelSGF' = ctx.sgf
             ELSE heap' = h /\ TopLevelSGF' = NoSGF
  /\ pc' = "loop"
  /\ UNCHANGED <<kind, ndecls, nstmts, nnested, D, functions, sgf, constant, phase,
                 scopes, fault, atDispatch, invoked, callers>>

isPrototype_Never(d) == FALSE

\* decl->getBody() == nullptr, the prototype test of emitFunction and
\* emitConstructor.
isPrototype(d) == ~d.hasBody

\* The node emitFunction(decl, fe) is called for: the key is taken from decl,
\* the body and the result type from fe.
FuncNode(decl, fe) ==
  [decl EXCEPT !.hasBody = fe.hasBody, !.resultType = fe.resultType]

\* SILGenModule::emitFunction; visitFuncDecl passes the declaration's own
\* function expression, any other caller a declaration and an expression.
emitFunction ==
  \E decl \in DeclSet, fe \in DeclSet :
    /\ decl.variant = "func"
    /\ fe.variant = "func"
    /\ pc = "loop" => fe = decl
    /\ Visit(FuncNode(decl, fe), ~isPrototype(fe))
    /\ IF isPrototype(fe)
         THEN ReturnNull
         ELSE BeginEmit(SILConstant(decl.id, "Default"),
                        isVoidableType(fe.resultType), "func")
    /\ UNCHANGED scopes

\* SILGenModule::emitConstructor up to the first SILGenFunction.
emitConstructor ==
  \E d \in DeclSet :
    /\ d.variant = "ctor"
    /\ Visit(d, ~isPrototype(d))
    /\ IF isPrototype(d)
         THEN ReturnNull
         ELSE BeginEmit(SILConstant(d.id, "Default"), TRUE,
                        IF d.refSem THEN "allocator" ELSE "value")
    /\ UNCHANGED scopes

\* emitConstructor, reference semantics: the initializer entry point.
emitConstructorInitializer ==
  /\ pc = "ctor_init"
  /\ BeginEmit(SILConstant(constant[1], "Initializer"), TRUE, "initializer")
  /\ UNCHANGED <<kind, ndecls, nstmts, nnested, D, toplevel, functions, TopLevelSGF,
                 scopes, atDispatch, invoked, callers>>

emitClosure_Voidable ==
  \E ce \in DeclSet :
    /\ ce.variant = "closure"
    /\ Visit(ce, TRUE)
    /\ BeginEmit(SILConstant(ce.id, "Default"),
                 isVoidableType(ce.resultType), "closure")
    /\ UNCHANGED scopes

visitPatternBindingDecl_Accessor ==
  \E d \in DeclSet :
    /\ d.variant = "pattern"
    /\ Dispatch(d)
    /\ invoked' = d
    /\ BeginEmit(SILConstant(d.id, "Default"), TRUE, "func")
    /\ UNCHANGED scopes

\* SILGenModule::emitClosure up to its SILGenFunction.
emitClosure ==
  \E ce \in DeclSet :
    /\ ce.variant = "closure"
    /\ Visit(ce, TRUE)
    /\ BeginEmit(SILConstant(ce.id, "Default"), FALSE, "closure")
    /\ UNCHANGED scopes

\* SILGenModule::visitPatternBindingDecl
visitPatternBindingDecl ==
  \E d \in DeclSet :
    /\ d.variant = "pattern"
    /\ Dispatch(d)
    /\ invoked' = d
    /\ Skip
    /\ UNCHANGED scopes

\* SILGenType::SILGenType, constructed by the loop, in a body or among the
\* members of another type.
SILGenType ==
  \E d \in DeclSet :
    /\ d.variant = "type"
    /\ Visit(d, TRUE)
    /\ scopes' = Append(scopes, Scope(d, 0, Len(callers')))
    /\ pc' = "type"
    /\ sgf' = NoSGF
    /\ UNCHANGED <<heap, constant, phase, fault>>

\* Member lowering registers the destructor the type declares.
visitDestructorDecl ==
  /\ pc = "type"
  /\ Top(scopes).theType.hasDtor
  /\ Top(scopes).explicitDestructor = 0
  /\ scopes' = [scopes EXCEPT
                  ![Len(scopes)].explicitDestructor = Top(scopes).theType.id]
  /\ UNCHANGED <<kind, pc, ndecls, nstmts, nnested, D, heap, toplevel, functions, TopLevelSGF,
                 sgf, constant, phase, fault, atDispatch, invoked, callers>>

SILGenType_dtor_NoAssert ==
  /\ pc = "type"
  /\ Top(scopes).theType.hasDtor => Top(scopes).explicitDestructor # 0
  /\ LET theType == Top(scopes).theType
         key == SILConstant(theType.id, "Destructor")
     IN IF theType.refSem \/ Top(scopes).explicitDestructor # 0
          THEN /\ BeginEmit(key, TRUE, "destructor")
               /\ scopes' = IF preEmitFunction(functions, heap, key).fault
                              THEN scopes
                              ELSE Pop(scopes)
               /\ UNCHANGED callers
          ELSE /\ scopes' = Pop(scopes)
               /\ ReturnTo(Pop(scopes))
               /\ UNCHANGED <<heap, fault>>
  /\ UNCHANGED <<kind, ndecls, nstmts, nnested, D, toplevel, functions, TopLevelSGF,
                 atDispatch, invoked>>

\* SILGenType::~SILGenType, with SILGenModule::emitDestructor up to its
\* SILGenFunction.
SILGenType_dtor ==
  /\ pc = "type"
  /\ Top(scopes).theType.hasDtor => Top(scopes).explicitDestructor # 0
  /\ LET theType == Top(scopes).theType
         key == SILConstant(theType.id, "Destructor")
     IN IF theType.refSem
          THEN /\ BeginEmit(key, TRUE, "destructor")
               /\ scopes' = IF preEmitFunction(functions, heap, key).fault
                              THEN scopes
                              ELSE Pop(scopes)
               /\ UNCHANGED callers
          ELSE IF Top(scopes).explicitDestructor # 0
            THEN /\ Abort("destructor")
                 /\ UNCHANGED <<heap, sgf, constant, phase, scopes, callers>>
            ELSE /\ scopes' = Pop(scopes)
                 /\ ReturnTo(Pop(scopes))
                 /\ UNCHANGED <<heap, fault>>
  /\ UNCHANGED <<kind, ndecls, nstmts, nnested, D, toplevel, functions, TopLevelSGF,
                 atDispatch, invoked>>

\* ------------------------------------------------------------ body lowering
\* The statements of a body, lowered against a SILGenFunction: a cleanup is
\* pushed, an explicit return is emitted, or lowering continues in a new
\* block after a terminator.
PushCleanup(c) == [c EXCEPT !.Cleanups = Append(@, Len(@) + 1)]

StartBlock(h, c) ==
  [sgf |-> [c EXCEPT !.ip = Len(h[c.F].blocks) + 1],
   heap |-> [h EXCEPT ![c.F].blocks = Append(@, <<>>)]]

BodyFrame == <<kind, pc, ndecls, nnested, D, toplevel, functions, TopLevelSGF,
               constant, phase, scopes, fault, atDispatch, invoked, callers>>

BodyPushCleanup ==
  /\ ndecls + nnested + nstmts < MaxSteps
  /\ nstmts' = nstmts + 1
  /\ pc = "body"
  /\ hasValidInsertionPoint(sgf)
  /\ sgf' = PushCleanup(sgf)
  /\ UNCHANGED heap
  /\ UNCHANGED BodyFrame

BodyReturn ==
  /\ ndecls + nnested + nstmts < MaxSteps
  /\ nstmts' = nstmts + 1
  /\ pc = "body"
  /\ hasValidInsertionPoint(sgf)
  /\ LET r == emitReturnAndCleanups(heap, sgf, 0)
     IN sgf' = r.sgf /\ heap' = r.heap
  /\ UNCHANGED BodyFrame

BodyStartBlock ==
  /\ ndecls + nnested + nstmts < MaxSteps
  /\ nstmts' = nstmts + 1
  /\ pc = "body"
  /\ ~hasValidInsertionPoint(sgf)
  /\ LET r == StartBlock(heap, sgf)
     IN sgf' = r.sgf /\ heap' = r.heap
  /\ UNCHANGED BodyFrame

EndBody_Late ==
  /\ pc = "body"
  /\ pc' = "post"
  /\ UNCHANGED <<kind, ndecls, nstmts, nnested, D, heap, toplevel, functions,
                 TopLevelSGF, sgf, constant, phase, scopes, fault,
                 atDispatch, invoked, callers>>

EndBody_ToLoop ==
  /\ pc = "body"
  /\ LET r == SILGenFunction_dtor(heap, sgf)
     IN /\ sgf' = r.sgf
        /\ heap' = [r.heap EXCEPT ![sgf.F].epilogs = @ + 1]
        /\ IF r.fault
             THEN Abort("epilog")
             ELSE pc' = "loop" /\ fault' = fault
  /\ UNCHANGED <<kind, ndecls, nstmts, nnested, D, toplevel, functions, TopLevelSGF,
                 constant, phase, scopes, atDispatch, invoked, callers>>

\* The SILGenFunction temporary goes out of scope at the end of the full
\* expression that lowered the body.
EndBody ==
  /\ pc = "body"
  /\ LET r == SILGenFunction_dtor(heap, sgf)
     IN /\ sgf' = r.sgf
        /\ heap' = [r.heap EXCEPT ![sgf.F].epilogs = @ + 1]
        /\ IF r.fault
             THEN Abort("epilog")
             ELSE pc' = "post" /\ fault' = fault
  /\ UNCHANGED <<kind, ndecls, nstmts, nnested, D, toplevel, functions, TopLevelSGF,
                 constant, phase, scopes, atDispatch, invoked, callers>>

AfterPostEmit_NoSplit(ph) == "return"

\* Where the policy continues after postEmitFunction: emitConstructor goes on
\* to the initializer of a class constructor, every other policy returns.
AfterPostEmit(ph) == IF ph = "allocator" THEN "ctor_init" ELSE "return"

\* return f: emitConstructor goes on to the initializer; otherwise the policy
\* returns to its caller.
Return ==
  IF AfterPostEmit(phase) = "ctor_init"
    THEN /\ sgf' = NoSGF
         /\ pc' = "ctor_init"
         /\ UNCHANGED <<constant, phase, callers>>
    ELSE ReturnTo(scopes)

postEmitFunction_StoreFirst ==
  /\ pc = "post"
  /\ functions' = Store(functions, constant, sgf.F)
  /\ \E oracle \in BOOLEAN :
       IF verify(heap[sgf.F], oracle)
         THEN /\ heap' = [heap EXCEPT ![sgf.F].verified = TRUE]
              /\ Return
              /\ fault' = fault
         ELSE /\ Abort("verify")
              /\ UNCHANGED <<heap, sgf, constant, phase, callers>>
  /\ UNCHANGED <<kind, ndecls, nstmts, nnested, D, toplevel, TopLevelSGF,
                 scopes, atDispatch, invoked>>

\* SILGenModule::postEmitFunction and the return of the policy.
postEmitFunction ==
  /\ pc = "post"
  /\ \E oracle \in BOOLEAN :
       IF verify(heap[sgf.F], oracle)
         THEN /\ heap' = [heap EXCEPT ![sgf.F].verified = TRUE]
              /\ functions' = Store(functions, constant, sgf.F)
              /\ Return
              /\ fault' = fault
         ELSE /\ Abort("verify")
              /\ UNCHANGED <<heap, functions, sgf, constant, phase, callers>>
  /\ UNCHANGED <<kind, ndecls, nstmts, nnested, D, toplevel, TopLevelSGF,
                 scopes, atDispatch, invoked>>

\* Top-level code is lowered against TopLevelSGF between declarations.
TopFrame == <<kind, pc, ndecls, nnested, D, toplevel, functions, sgf, constant,
              phase, scopes, fault, atDispatch, invoked, callers>>

TopPushCleanup ==
  /\ ndecls + nnested + nstmts < MaxSteps
  /\ nstmts' = nstmts + 1
  /\ pc = "loop"
  /\ toplevel # 0
  /\ hasValidInsertionPoint(TopLevelSGF)
  /\ TopLevelSGF' = PushCleanup(TopLevelSGF)
  /\ UNCHANGED heap
  /\ UNCHANGED TopFrame

TopReturn ==
  /\ ndecls + nnested + nstmts < MaxSteps
  /\ nstmts' = nstmts + 1
  /\ pc = "loop"
  /\ toplevel # 0
  /\ hasValidInsertionPoint(TopLevelSGF)
  /\ LET r == emitReturnAndCleanups(heap, TopLevelSGF, 0)
     IN TopLevelSGF' = r.sgf /\ heap' = r.heap
  /\ UNCHANGED TopFrame

SILGenModule_dtor_NoDelete ==
  /\ pc = "loop"
  /\ pc' = "done"
  /\ UNCHANGED <<TopLevelSGF, heap, fault>>
  /\ UNCHANGED <<kind, ndecls, nstmts, nnested, D, toplevel, functions, sgf, constant, phase,
                 scopes, atDispatch, invoked, callers>>

\* SILGenModule::~SILGenModule at the end of constructSIL: delete TopLevelSGF.
SILGenModule_dtor ==
  /\ pc = "loop"
  /\ IF toplevel # 0
       THEN LET r == SILGenFunction_dtor(heap, TopLevelSGF)
            IN /\ TopLevelSGF' = r.sgf
               /\ heap' = [r.heap EXCEPT ![toplevel].epilogs = @ + 1]
               /\ IF r.fault
                    THEN Abort("epilog")
                    ELSE pc' = "done" /\ fault' = fault
       ELSE /\ pc' = "done"
            /\ UNCHANGED <<TopLevelSGF, heap, fault>>
  /\ UNCHANGED <<kind, ndecls, nstmts, nnested, D, toplevel, functions, sgf, constant, phase,
                 scopes, atDispatch, invoked, callers>>

Next ==
  \/ constructSIL
  \/ emitFunction
  \/ emitConstructor
  \/ emitConstructorInitializer
  \/ emitClosure
  \/ visitPatternBindingDecl
  \/ SILGenType
  \/ visitDestructorDecl
  \/ SILGenType_dtor
  \/ BodyPushCleanup
  \/ BodyReturn
  \/ BodyStartBlock
  \/ EndBody
  \/ postEmitFunction
  \/ TopPushCleanup
  \/ TopReturn
  \/ SILGenModule_dtor

Spec == Init /\ [][Next]_vars

TypeOK ==
  /\ pc \in {"start", "loop", "body", "post", "ctor_init", "type", "done",
             "aborted"}
  /\ ndecls \in 0..MaxSteps
  /\ nstmts \in 0..MaxSteps
  /\ fault \in {"none", "duplicate", "verify", "destructor", "epilog"}
  /\ nnested \in 0..MaxSteps
  /\ Len(callers) <= nnested
  /\ Len(scopes) <= ndecls + nnested
  /\ pc = "type" => scopes # <<>>

\* ------------------------------------------------------------- properties
\* The last block instruction, an "empty" marker for an empty block.
Last(block) == IF Len(block) = 0 THEN Instr("empty", 0) ELSE block[Len(block)]

\* The step is the end of the scope of the running SILGenFunction (a step
\* from a body that calls a policy suspends the context instead).
EndBodyStep == pc = "body" /\ pc' # "body" /\ callers' = callers

\* The step is the end of the scope of TopLevelSGF.
EndTopStep == pc = "loop" /\ pc' = "done" /\ toplevel # 0

\* The step dispatches a declaration.
DispatchStep == pc = "loop" /\ ndecls' = ndecls + 1

\* The keys of the last dispatched declaration its policy has recorded.
Added == {k \in DOMAIN functions \ DOMAIN atDispatch : k[1] = D.id}

\* C1: a key of the function table maps to one function, and once recorded
\* it stays recorded and maps to the same function in every later state.
C1_NoOverwrite ==
  [][\A k \in DOMAIN functions :
       k \in DOMAIN functions' /\ functions'[k] = functions[k]]_vars

\* The key whose preEmitFunction the step runs, as a set (empty when the step
\* runs none): the step allocates a shell or fails the assertion.
PreEmitKeys ==
  IF pc # "start"
       /\ (Len(heap') > Len(heap) \/ (fault = "none" /\ fault' = "duplicate"))
    THEN {constant'}
    ELSE {}

\* The keys an emission has been attempted for: the recorded ones and those
\* of the emissions on the call stack.
Attempted ==
  DOMAIN functions
    \cup {callers[i].constant : i \in 1..Len(callers)}
    \cup (IF pc \in {"body", "post"} THEN {constant} ELSE {})

\* C2: a second attempt to emit a key faults before the function table is
\* changed, in every policy and wherever the policy is called from: the step
\* that runs preEmitFunction on a key already attempted ends in the duplicate
\* fault with the table as it was when the policy was invoked; the two-key
\* constructor policy faults at its first key, not after it has stored it;
\* and the pass takes no step after the fault.
C2_DuplicateFaultsFirst ==
  /\ [][\A k \in PreEmitKeys :
         k \in Attempted =>
           pc' = "aborted" /\ fault' = "duplicate" /\ functions' = functions]_vars
  /\ [][pc = "ctor_init" => fault' # "duplicate"]_vars
  /\ [](fault = "duplicate" => pc = "aborted")
  /\ [][pc # "aborted"]_vars

\* C3: a function handed to postEmitFunction has no open block, whether the
\* body left the insertion point valid or not, and so has every recorded
\* function.
C3_NoOpenBlocks ==
  /\ pc = "post" => OpenBlocks(heap[sgf.F]) = {}
  /\ \A k \in DOMAIN functions : OpenBlocks(heap[functions[k]]) = {}

\* A non-voidable body returned, went on in a second block and fell through.
C3_Witness ==
  /\ pc = "post"
  /\ Len(heap[sgf.F].blocks) = 2
  /\ Last(heap[sgf.F].blocks[1]).op = "return"
  /\ Last(heap[sgf.F].blocks[2]).op = "unreachable"

\* The block at the insertion point of context c, before and after a step.
Before(c) == heap[c.F].blocks[c.ip]
After(c) == heap'[c.F].blocks[c.ip]

\* The voidable epilogue: to the block at the insertion point are appended a
\* unit value, then the cleanups from the most recently pushed to the first
\* pushed, then the return of that unit value.
VoidableEpilogue(c) ==
  LET n == Len(Before(c))
      m == Len(c.Cleanups)
  IN /\ Len(After(c)) = n + m + 2
     /\ SubSeq(After(c), 1, n) = Before(c)
     /\ After(c)[n + 1] = Instr("tuple", 0)
     /\ \A i \in 1..m : After(c)[n + 1 + i] = Instr("cleanup", m + 1 - i)
     /\ \A i \in 1..m : c.Cleanups[i] = i
     /\ After(c)[n + m + 2] = Instr("return", n + 1)

\* C4: when a voidable context ends with a valid insertion point, the
\* epilogue constructs a unit value, then emits every cleanup on the stack
\* in reverse push order, then returns that value as the last instruction.
C4_VoidableFallthrough ==
  [][/\ (EndBodyStep /\ sgf.hasVoidReturn /\ hasValidInsertionPoint(sgf))
        => VoidableEpilogue(sgf) /\ pc' = "post"
     /\ (EndTopStep /\ TopLevelSGF.hasVoidReturn
           /\ hasValidInsertionPoint(TopLevelSGF))
        => VoidableEpilogue(TopLevelSGF)]_vars

\* A voidable body pushed two cleanups and fell through.
C4_Witness ==
  /\ pc = "post"
  /\ sgf.hasVoidReturn
  /\ Len(sgf.Cleanups) = 2
  /\ Last(heap[sgf.F].blocks[1]) = Instr("return", 1)

\* C5: when a non-voidable context ends with a valid insertion point, the
\* epilogue appends an unreachable marker and nothing else: no unit value,
\* no cleanup, no return.
C5_NonVoidableFallthrough ==
  [][(EndBodyStep /\ ~sgf.hasVoidReturn /\ hasValidInsertionPoint(sgf))
       => /\ After(sgf) = Before(sgf) \o <<Instr("unreachable", 0)>>
          /\ \A f \in 1..Len(heap) : f # sgf.F => heap'[f] = heap[f]
          /\ pc' = "post"]_vars

\* A function with a non-unit result type pushed a cleanup and fell through.
C5_Witness ==
  /\ pc = "post"
  /\ D.variant = "func" /\ D.resultType # "EmptyTuple"
  /\ phase = "func"
  /\ Len(sgf.Cleanups) >= 1
  /\ heap[sgf.F].blocks = << <<Instr("unreachable", 0)>> >>

\* The last dispatched declaration has been visited to the end.
Visited == pc \in {"loop", "done"} /\ ndecls >= 1

\* The phases of the contexts of emitConstructor.
CtorPhases == {"allocator", "initializer", "value"}

\* C6: a constructor with a body records two keys for its declaration when
\* the type has reference semantics, the allocator's (the declaration's
\* constant without a kind) and the initializer's, and one key when the type
\* has value semantics (the declaration's constant without a kind); each of
\* its contexts is voidable.
C6_ConstructorSplitting ==
  /\ (Visited /\ D.variant = "ctor" /\ D.hasBody /\ D.refSem)
       => /\ Added = {SILConstant(D.id, "Default"),
                      SILConstant(D.id, "Initializer")}
          /\ functions[SILConstant(D.id, "Default")]
               # functions[SILConstant(D.id, "Initializer")]
  /\ (Visited /\ D.variant = "ctor" /\ D.hasBody /\ ~D.refSem)
       => Added = {SILConstant(D.id, "Default")}
  /\ (pc \in {"body", "post"} /\ phase \in CtorPhases)
       => /\ sgf.hasVoidReturn
          /\ constant[2] = IF phase = "initializer" THEN "Initializer"
                                                    ELSE "Default"
  /\ \A i \in 1..Len(callers) :
       callers[i].phase \in CtorPhases => callers[i].sgf.hasVoidReturn
  /\ \A k \in DOMAIN functions :
       k[2] = "Initializer"
         => /\ \E d \in DeclSet :
                 d.id = k[1] /\ d.variant = "ctor" /\ d.hasBody /\ d.refSem
            /\ SILConstant(k[1], "Default") \in DOMAIN functions
            /\ functions[SILConstant(k[1], "Default")] # functions[k]
  /\ \A d \in DeclSet :
       (/\ d.variant = "ctor" /\ d.refSem
        /\ SILConstant(d.id, "Default") \in DOMAIN functions
        /\ SILConstant(d.id, "Initializer") \notin DOMAIN functions)
         => \/ pc = "aborted"
            \/ pc = "ctor_init" /\ constant[1] = d.id
            \/ /\ pc \in {"body", "post", "type"}
               /\ SILConstant(d.id, "Initializer") \in InProgress

\* A class constructor with a body has been emitted.
C6_Witness ==
  /\ Visited
  /\ D.variant = "ctor" /\ D.hasBody /\ D.refSem
  /\ Cardinality(Added) = 2

\* The step is the end of the scope of the innermost SILGenType.
ScopeExitStep ==
  /\ pc = "type"
  /\ nnested' = nnested
  /\ pc' # "type" \/ Len(scopes') < Len(scopes)

\* The step is a call of postEmitFunction.
PostEmitStep == pc = "post" /\ pc' # "post"

\* C7: the scope of a SILGenType for a class ends, whether or not a
\* destructor was registered, by emitting the Destructor key of that class,
\* so that the key is recorded when the class has been lowered, and only that
\* key for it; the key is emitted once per class: the function recorded under
\* a Destructor key is never replaced by a second one.
C7_DestructorGuarantee ==
  /\ []((Visited /\ D.variant = "type" /\ D.refSem)
          => Added = {SILConstant(D.id, "Destructor")})
  /\ [][(ScopeExitStep /\ Top(scopes).theType.refSem)
          => /\ constant' = SILConstant(Top(scopes).theType.id, "Destructor")
             /\ \/ pc' = "body" /\ phase' = "destructor" /\ sgf'.hasVoidReturn
                \/ /\ pc' = "aborted" /\ fault' = "duplicate"
                   /\ constant' \in DOMAIN functions]_vars
  /\ [][(PostEmitStep /\ phase = "destructor" /\ pc' # "aborted")
          => /\ constant \notin DOMAIN functions
             /\ functions' = Store(functions, constant, sgf.F)]_vars

\* The step makes a call: the loop dispatches a declaration, or a body or the
\* members of a type call a policy or open a type.
InvokeStep == ndecls' # ndecls \/ nnested' # nnested

\* C8: a call for a function or constructor without a body, from the loop,
\* from a body or for a member of a type, whether or not the key of the
\* declaration is recorded, changes neither the function table nor any
\* function object (no shell, no verification), raises no fault and returns
\* to where it was made.
C8_PrototypeSkip ==
  [][(InvokeStep /\ invoked'.variant \in {"func", "ctor"} /\ ~invoked'.hasBody)
       => /\ functions' = functions
          /\ heap' = heap
          /\ sgf' = sgf
          /\ constant' = constant
          /\ phase' = phase
          /\ callers' = callers
          /\ scopes' = scopes
          /\ pc' = pc
          /\ fault' = "none"]_vars

\* While the body of a function is lowered, emitFunction was called without
\* a body for a declaration whose key is already recorded; the pass goes on
\* in that body.
C8_Witness ==
  /\ pc = "body"
  /\ callers = <<>>
  /\ fault = "none"
  /\ invoked.variant = "func" /\ ~invoked.hasBody
  /\ constant[1] # invoked.id
  /\ SILConstant(invoked.id, "Default") \in DOMAIN functions

\* C9: a library unit has no top-level function; a main or REPL unit has
\* one, its context is voidable, and when its body has not returned
\* explicitly the finished top-level function ends in the return of a unit
\* value constructed by the epilogue.
C9_TopLevelByKind ==
  /\ pc # "start" => (toplevel = 0 <=> kind = "Library")
  /\ toplevel # 0 => TopLevelSGF.hasVoidReturn
  /\ (pc = "done" /\ toplevel # 0)
       => LET b == heap[toplevel].blocks[1]
          IN (\A i \in 1..Len(b) : b[i] # Instr("return", 0))
               => /\ Len(b) >= 2
                  /\ Last(b).op = "return"
                  /\ Last(b).arg \in 1..(Len(b) - 1)
                  /\ b[Last(b).arg] = Instr("tuple", 0)

\* A main unit whose top-level code pushed a cleanup and fell through.
C9_Witness ==
  /\ pc = "done"
  /\ kind = "Main"
  /\ heap[toplevel].blocks[1]
       = <<Instr("tuple", 0), Instr("cleanup", 1), Instr("return", 1)>>

\* C10: every function of the finished module, the entries of the function
\* table and the top-level function when there is one, has no open block and
\* has passed verification.
C10_AllVerified ==
  pc = "done" =>
    /\ \A k \in DOMAIN functions :
         /\ OpenBlocks(heap[functions[k]]) = {}
         /\ heap[functions[k]].verified
    /\ toplevel # 0 =>
         /\ OpenBlocks(heap[toplevel]) = {}
         /\ heap[toplevel].verified

\* C11 (determinism of two passes over the same unit) compares two
\* behaviours; no formula over one behaviour of this module states it.

\* The step lowers a statement of the body of the running policy.
BodyStmtStep == pc = "body" /\ nstmts' # nstmts

\* C12: the destructor of a policy's SILGenFunction runs exactly once, after
\* the statements of the body and before the function reaches
\* postEmitFunction, in every policy: it has not run while the body is
\* lowered, it has run once when the function is handed to postEmitFunction
\* and once for every recorded function, and no statement is lowered after it.
C12_EpilogueOnce ==
  /\ [](pc = "body" => heap[sgf.F].epilogs = 0)
  /\ [](\A i \in 1..Len(callers) : heap[callers[i].sgf.F].epilogs = 0)
  /\ [](pc = "post" => heap[sgf.F].epilogs = 1)
  /\ [](\A k \in DOMAIN functions : heap[functions[k]].epilogs = 1)
  /\ [][BodyStmtStep => heap[sgf.F].epilogs = 0 /\ heap'[sgf.F].epilogs = 0]_vars
  /\ [][pc' = "post" => pc = "body"]_vars

\* The initializer of a class constructor is handed to postEmitFunction after
\* its body lowered a statement; the allocator is recorded.
C12_Witness ==
  /\ pc = "post"
  /\ phase = "initializer"
  /\ Len(sgf.Cleanups) = 1
  /\ heap[sgf.F].epilogs = 1
  /\ heap[functions[SILConstant(constant[1], "Default")]].epilogs = 1

\* The number of terminators in a block.
TerminatorCount(block) ==
  Cardinality({i \in 1..Len(block) : block[i].op \in Terminators})

\* What the end of the scope of context c does to its function: nothing when
\* the insertion point is invalid; otherwise the block at the insertion point
\* is extended by instructions of which exactly one, the last, is a
\* terminator, and the insertion point becomes invalid in c2, the context
\* after the step.
EpilogueDiscipline(c, c2) ==
  IF ~hasValidInsertionPoint(c)
    THEN heap'[c.F].blocks = heap[c.F].blocks /\ c2 = c
    ELSE /\ Len(After(c)) > Len(Before(c))
         /\ SubSeq(After(c), 1, Len(Before(c))) = Before(c)
         /\ TerminatorCount(After(c)) = 1
         /\ Last(After(c)).op \in Terminators
         /\ \A b \in 1..Len(heap[c.F].blocks) :
              b # c.ip => heap'[c.F].blocks[b] = heap[c.F].blocks[b]
         /\ Len(heap'[c.F].blocks) = Len(heap[c.F].blocks)
         /\ ~hasValidInsertionPoint(c2)

\* Block b of function f is where a context in progress inserts.
IsInsertionBlock(f, b) ==
  \/ pc = "body" /\ sgf.F = f /\ sgf.ip = b
  \/ pc = "loop" /\ TopLevelSGF.F = f /\ TopLevelSGF.ip = b

\* C13: at the end of a context's scope the epilogue appends nothing when the
\* insertion point is invalid, and otherwise ends with exactly one terminator
\* and leaves the insertion point invalid; no block holds a second
\* terminator or an instruction after its terminator, and a block changes
\* only while it is the insertion point of a context in progress.
C13_InsertionPointDiscipline ==
  /\ [][/\ EndBodyStep => EpilogueDiscipline(sgf, sgf')
        /\ EndTopStep => EpilogueDiscipline(TopLevelSGF, TopLevelSGF')]_vars
  /\ [](\A f \in 1..Len(heap) : \A b \in 1..Len(heap[f].blocks) :
          /\ TerminatorCount(heap[f].blocks[b]) <= 1
          /\ TerminatorCount(heap[f].blocks[b]) = 1
               => ~IsOpen(heap[f].blocks[b]))
  /\ [][\A f \in 1..Len(heap) : \A b \in 1..Len(heap[f].blocks) :
          heap'[f].blocks[b] # heap[f].blocks[b] => IsInsertionBlock(f, b)]_vars

\* A body returned explicitly after pushing a cleanup, and its context ended
\* with the insertion point invalid: the block ends in that one return.
C13_Witness ==
  /\ pc = "post"
  /\ ~hasValidInsertionPoint(sgf)
  /\ heap[sgf.F].blocks = << <<Instr("cleanup", 1), Instr("return", 0)>> >>
  /\ heap[sgf.F].epilogs = 1

\* C14: postEmitFunction records the function only after its verification
\* has passed: a call either ends with the function verified and stored
\* under its constant, the rest of the table as it was, or, when
\* verification fails, aborts the pass with the table unchanged; so every
\* recorded function is verified.
C14_RecordAfterVerify ==
  /\ [][PostEmitStep =>
          \/ /\ pc' # "aborted"
             /\ heap'[sgf.F].verified
             /\ OpenBlocks(heap[sgf.F]) = {}
             /\ functions' = Store(functions, constant, sgf.F)
          \/ /\ pc' = "aborted"
             /\ fault' = "verify"
             /\ ~heap'[sgf.F].verified
             /\ functions' = functions]_vars
  /\ [](\A k \in DOMAIN functions : heap[functions[k]].verified)

\* Verification of the second function of the pass failed; the first stays
\* recorded and the failed one is not in the table.
C14_Witness ==
  /\ fault = "verify"
  /\ Cardinality(DOMAIN functions) = 1
  /\ constant \notin DOMAIN functions
  /\ \A k \in DOMAIN functions : functions[k] # sgf.F

\* Where the pass goes on after the innermost SILGenType is gone: among the
\* members of the SILGenType that encloses it, in the body that declared the
\* type, or in the loop.
Enclosing ==
  IF Len(scopes) > 1 /\ scopes[Len(scopes) - 1].depth = Len(callers)
    THEN "type"
    ELSE IF callers # <<>> THEN "body" ELSE "loop"

\* C15: at the end of the scope of a SILGenType for a type that is not a
\* class, wherever the type was declared, a registered destructor aborts the
\* pass on the assertion, and no function is allocated or recorded; with none
\* registered nothing is emitted, no fault is raised and the pass goes on in
\* what encloses the type.
C15_NonClassExit ==
  [][(ScopeExitStep /\ ~Top(scopes).theType.refSem) =>
       /\ functions' = functions
       /\ heap' = heap
       /\ IF Top(scopes).explicitDestructor # 0
            THEN /\ pc' = "aborted" /\ fault' = "destructor"
                 /\ scopes' = scopes
                 /\ callers' = callers
            ELSE /\ fault' = "none"
                 /\ scopes' = Pop(scopes)
                 /\ pc' = Enclosing
                 /\ IF Enclosing = "body"
                      THEN /\ sgf' = Top(callers).sgf
                           /\ callers' = Pop(callers)
                      ELSE callers' = callers]_vars

\* A struct declared in the body of a function registered a destructor and
\* aborted the pass with the context of that body alive; no destructor
\* function exists.
C15_Witness ==
  /\ fault = "destructor"
  /\ scopes # <<>>
  /\ ~Top(scopes).theType.refSem
  /\ Top(scopes).explicitDestructor = Top(scopes).theType.id
  /\ Top(scopes).depth = 1
  /\ Len(callers) = 1
  /\ callers[1].phase = "func"
  /\ heap[callers[1].sgf.F].epilogs = 0
  /\ \A k \in DOMAIN functions : k[2] # "Destructor"

\* The constants the policy of declaration d records when it runs to the end.
KeysOf(d) ==
  CASE d.variant \in {"func", "ctor"} /\ ~d.hasBody -> {}
    [] d.variant = "func" /\ d.hasBody -> {SILConstant(d.id, "Default")}
    [] d.variant = "ctor" /\ d.hasBody /\ d.refSem ->
         {SILConstant(d.id, "Default"), SILConstant(d.id, "Initializer")}
    [] d.variant = "ctor" /\ d.hasBody /\ ~d.refSem ->
         {SILConstant(d.id, "Default")}
    [] d.variant = "closure" -> {SILConstant(d.id, "Default")}
    [] d.variant = "type" /\ d.refSem -> {SILConstant(d.id, "Destructor")}
    [] OTHER -> {}

\* Every declaration has all of its constants recorded or none.
AllOrNone ==
  \A d \in DeclSet :
    \/ KeysOf(d) \subseteq DOMAIN functions
    \/ KeysOf(d) \cap DOMAIN functions = {}

\* C16 as claimed: whenever no policy is in progress, between declarations,
\* at completion or after an abort, every declaration has all of its
\* constants recorded or none.
C16_NoPartialSuccess ==
  pc \in {"start", "loop", "done", "aborted"} => AllOrNone

\* C16 as amended: while the pass has not aborted and no policy is in
\* progress, between declarations and at completion, every declaration has
\* all of its constants recorded or none.
C16_NoPartialSuccessUnlessAborted ==
  pc \in {"start", "loop", "done"} => AllOrNone

\* The pass completed after a class constructor and then another declaration
\* were visited; both functions of the constructor are recorded.
C16_Witness ==
  /\ pc = "done"
  /\ ndecls = 2
  /\ D.variant # "ctor"
  /\ \E d \in DeclSet :
       /\ d.variant = "ctor" /\ d.refSem
       /\ Cardinality(KeysOf(d)) = 2
       /\ KeysOf(d) \subseteq DOMAIN functions

\* The functions a SILGenFunction is in progress on: one was built on them
\* and its destructor has not run.
ContextsInProgress ==
  IF pc = "aborted"
    THEN {}
    ELSE {f \in 1..Len(heap) :
            Len(heap[f].blocks) > 0 /\ heap[f].epilogs = 0}

\* The constants of the closure expressions.
ClosureKeys ==
  {SILConstant(d.id, "Default") : d \in {x \in DeclSet : x.variant = "closure"}}

\* Declarations are visited one after the other: the next declaration is
\* taken only when every function of the one before is recorded, its contexts
\* have ended and its SILGenType objects are gone, and a function allocated
\* or recorded by a step is one of the declaration being visited, of a member
\* of it or of a node met in its bodies.
InInputOrder ==
  /\ DispatchStep =>
       /\ KeysOf(D) \subseteq DOMAIN functions
       /\ ContextsInProgress \ {toplevel} = {}
       /\ callers = <<>>
       /\ scopes = <<>>
  /\ (D' # D \/ ndecls' # ndecls) => DispatchStep
  /\ \A k \in DOMAIN functions' \ DOMAIN functions :
       \/ k \in KeysOf(D)
       \/ callers # <<>>
       \/ scopes # <<>>
  /\ (Len(heap') > Len(heap) /\ pc # "start") =>
       /\ pc' = "body"
       /\ sgf'.F = Len(heap')
       /\ \/ constant' \in KeysOf(D')
          \/ callers' # <<>>
          \/ scopes # <<>>

\* The functions of the emissions on the call stack whose body is not
\* finished: those suspended in their body and the one being lowered.
StackFunctions ==
  {callers[i].sgf.F : i \in 1..Len(callers)}
    \cup (IF pc = "body" THEN {sgf.F} ELSE {})

\* C17 as claimed: declarations are processed in input order, and never are
\* two SILGenFunctions in progress at once.
C17_OneContextAtATime ==
  /\ [][InInputOrder]_vars
  /\ [](Cardinality(ContextsInProgress) <= 1)

\* C17 as amended: declarations are processed in input order, each with its
\* members and the nodes met in its bodies.  Several SILGenFunctions can be
\* in progress at once: the top-level one of a main or REPL unit from the
\* construction of the SILGenModule to its destruction, and, while a policy
\* called from a body runs or a type declared in a body is lowered, the
\* contexts of the enclosing bodies; besides the top-level one they form the
\* call stack, and only the function of the innermost is changed.
C17_ContextsNest ==
  /\ [][InInputOrder]_vars
  /\ [](pc # "aborted" => ContextsInProgress \ {toplevel} = StackFunctions)
  /\ [](Cardinality(StackFunctions) =
          Len(callers) + (IF pc = "body" THEN 1 ELSE 0))
  /\ [](callers # <<>>
          => pc \in {"body", "post", "ctor_init", "type", "aborted"})
  /\ [](\A i \in 1..Len(scopes) : scopes[i].depth <= Len(callers))
  /\ []((toplevel # 0 /\ pc \in {"loop", "body", "post", "ctor_init", "type"})
          => toplevel \in ContextsInProgress)
  /\ [][\A i \in 1..Len(callers) :
          i <= Len(callers') =>
            /\ callers'[i] = callers[i]
            /\ heap'[callers[i].sgf.F] = heap[callers[i].sgf.F]]_vars

\* In a main unit a function met in the body of the declaration being
\* visited is being lowered: its context, the suspended context of the
\* enclosing body and the top-level one are in progress.
C17_Witness ==
  /\ pc = "body"
  /\ phase = "func"
  /\ Len(callers) = 1
  /\ ContextsInProgress = {toplevel, callers[1].sgf.F, sgf.F}
  /\ Cardinality(ContextsInProgress) = 3

\* The function holds an instruction of the voidable epilogue: a unit value,
\* or the return of a value constructed in the block.
HasUnitReturn(F) ==
  \E b \in 1..Len(F.blocks) : \E i \in 1..Len(F.blocks[b]) :
    \/ F.blocks[b][i].op = "tuple"
    \/ F.blocks[b][i].op = "return" /\ F.blocks[b][i].arg # 0

C19_PatternBindingNoEmission ==
  [][(DispatchStep /\ D'.variant = "pattern")
       => /\ functions' = functions
          /\ heap' = heap
          /\ toplevel' = toplevel
          /\ TopLevelSGF' = TopLevelSGF
          /\ sgf' = sgf
          /\ constant' = constant
          /\ phase' = phase
          /\ callers' = callers
          /\ scopes' = scopes
          /\ pc' = "loop"
          /\ fault' = "none"]_vars

\* A pattern binding was dispatched in a main unit after a function had been
\* recorded and top-level code lowered.
C19_Witness ==
  /\ pc = "loop"
  /\ D.variant = "pattern"
  /\ DOMAIN functions # {}
  /\ toplevel # 0
  /\ Len(TopLevelSGF.Cleanups) = 1

\* The pass is running: the module exists and has not been returned.
InPass == pc \in {"loop", "body", "post", "ctor_init", "type"}

\* The top-level context is created by the constructor of the orchestrator,
\* before any dispatch, and its epilogue runs only in the step that ends the
\* pass.
TopLevelLifetime ==
  /\ toplevel' # toplevel => (pc = "start" /\ ndecls = 0 /\ toplevel' = Len(heap'))
  /\ (toplevel # 0 /\ heap'[toplevel].epilogs # heap[toplevel].epilogs)
       => (EndTopStep /\ heap'[toplevel].epilogs = 1)
  /\ DispatchStep => (kind # "Library" => toplevel # 0 /\ toplevel' = toplevel)

\* The top-level function has no key, is not in the table and is never the
\* function of an emission in progress, so it never reaches preEmit/postEmit.
TopLevelUnkeyed ==
  toplevel # 0 =>
    /\ \A k \in DOMAIN functions : functions[k] # toplevel
    /\ (pc \in {"body", "post"} => sgf.F # toplevel)
    /\ \A i \in 1..Len(callers) : callers[i].sgf.F # toplevel
    /\ ~heap[toplevel].verified

TopLevelEpilogueOnce ==
  /\ (toplevel # 0 /\ InPass) => heap[toplevel].epilogs = 0
  /\ (toplevel # 0 /\ pc = "done") =>
        heap[toplevel].epilogs = 1 /\ OpenBlocks(heap[toplevel]) = {}

\* C20 as stated: the top-level context is created before any dispatch, its
\* epilogue runs exactly once at the end of the pass, the top-level function
\* is never keyed, recorded or passed to preEmit/postEmit, and during the
\* whole pass it keeps an open block.
C20_TopLevelAlwaysOpen ==
  /\ [][TopLevelLifetime]_vars
  /\ []TopLevelUnkeyed
  /\ []TopLevelEpilogueOnce
  /\ []((toplevel # 0 /\ InPass) => OpenBlocks(heap[toplevel]) # {})

\* C20, amended: as above, except that the top-level function keeps an open
\* block only until its body returns explicitly; from then on its insertion
\* point is invalid and the function has no open block.
C20_TopLevelOpenUntilReturn ==
  /\ [][TopLevelLifetime]_vars
  /\ []TopLevelUnkeyed
  /\ []TopLevelEpilogueOnce
  /\ []((toplevel # 0 /\ InPass) =>
          (OpenBlocks(heap[toplevel]) # {} <=> hasValidInsertionPoint(TopLevelSGF)))

\* A main or REPL unit finished after at least one recorded emission: the
\* epilogue of the top-level context has run once and closed the function.
C20_Witness ==
  /\ pc = "done"
  /\ toplevel # 0
  /\ ndecls >= 1
  /\ DOMAIN functions # {}
  /\ heap[toplevel].epilogs = 1
  /\ Last(heap[toplevel].blocks[1]).op = "return"

====
